---- MODULE Spec2Model ----
(***************************************************************************)
(* Model of the watermark-removal editor: App.tsx (image upload, the       *)
(* generation request and its busy flag, apply / cancel of a result) and   *)
(* components/ImageEditor.tsx (viewport, stroke recorder, mask             *)
(* rasterizer).  Every React event handler and every asynchronous callback *)
(* (FileReader.onload, Image.onload, settlement of removeWatermark) is one *)
(* atomic action; React state is the set of variables.                     *)
(*                                                                         *)
(* Numbers that the code computes by division (scale, offset, image-space  *)
(* coordinates) are exact rationals <<numerator, denominator>>.            *)
(***************************************************************************)
EXTENDS Integers, Sequences, FiniteSets, TLC

\* ------------------------------------------------------------------------
\* Bounds of the model
\* ------------------------------------------------------------------------
\* number of user input events (pointer, wheel, button, file selection) in a run
MaxEvents == 6
\* committed strokes kept in the history
MaxPaths == 2
\* points of the in-progress stroke
MaxPts == 2
\* |offset.x|, |offset.y| reachable by panning
OffsetBound == 300

\* ------------------------------------------------------------------------
\* Exact rational arithmetic
\* ------------------------------------------------------------------------
Abs(n) == IF n < 0 THEN -n ELSE n

RECURSIVE GCD(_, _)
GCD(a, b) == IF b = 0 THEN a ELSE GCD(b, a % b)

\* the rational n/d in lowest terms with a positive denominator
Rat(n, d) ==
  LET s == IF d < 0 THEN -1 ELSE 1
      g == GCD(Abs(n), Abs(d))
  IN  <<(s * n) \div g, (s * d) \div g>>

R(n) == <<n, 1>>
\* the operands are in lowest terms; common factors are divided out before
\* multiplying, which keeps the intermediate products small
RAdd(a, b) ==
  LET g == GCD(a[2], b[2])
  IN  Rat(a[1] * (b[2] \div g) + b[1] * (a[2] \div g), (a[2] \div g) * b[2])
RSub(a, b) == RAdd(a, <<-b[1], b[2]>>)
RMul(a, b) ==
  LET g1 == GCD(Abs(a[1]), b[2])
      g2 == GCD(Abs(b[1]), a[2])
  IN  Rat((a[1] \div g1) * (b[1] \div g2), (a[2] \div g2) * (b[2] \div g1))
RDiv(a, b) == RMul(a, IF b[1] < 0 THEN <<-b[2], -b[1]>> ELSE <<b[2], b[1]>>)
RLe(a, b) ==
  LET g == GCD(a[2], b[2])
  IN  a[1] * (b[2] \div g) <= b[1] * (a[2] \div g)
RLt(a, b) ==
  LET g == GCD(a[2], b[2])
  IN  a[1] * (b[2] \div g) < b[1] * (a[2] \div g)
RMin(a, b) == IF RLe(a, b) THEN a ELSE b
RMax(a, b) == IF RLe(a, b) THEN b ELSE a

\* ------------------------------------------------------------------------
\* Inputs
\* ------------------------------------------------------------------------
\* An image is the sequence <<file>> for an uploaded file and Append(img, "r")
\* for the result the inpainting service returns for img; <<>> is null.
NoImage == <<>>
Files == {"A", "B"}
FileImage(f) == <<f>>

\* native width / height of the uploaded files
FileDims == [A |-> [width |-> 800, height |-> 600],
             B |-> [width |-> 20000, height |-> 16000]]
ImgDims(img) == FileDims[img[1]]

\* containerRef.current: client size and bounding rectangle
Container == [clientWidth |-> 1000, clientHeight |-> 800, left |-> 20, top |-> 10]

\* clientX / clientY of pointer events
Positions == {[x |-> 120, y |-> 110], [x |-> 420, y |-> 310]}
\* deltaY of wheel events
WheelDeltas == {-5000, 5000}
\* values of the brush-size range input (min 5, max 100)
BrushSizes == {5, 20, 100}
Modes == {"DRAW", "PAN"}

Origin == [x |-> R(0), y |-> R(0)]
\* evPos of an event that carries no pointer position
NoPos == [x |-> 0, y |-> 0]
RPoint(p) == [x |-> R(p.x), y |-> R(p.y)]

\* ------------------------------------------------------------------------
\* State
\* ------------------------------------------------------------------------
VARIABLES
  \* App.tsx
  originalImage, processedImage, isProcessing,
  readers,      \* files whose FileReader.onload is pending
  inflight,     \* calls of removeWatermark that have not settled
  alerts,       \* number of failure alerts shown
  lastShown,    \* history: mode and brush size of the editor when it was last unmounted
  \* ImageEditor.tsx (initial values while the editor is not mounted)
  mode, brushSize, paths, scale, offset, isDragging, lastMousePos,
  isDrawing, currentPath,
  imageRef,     \* imageRef.current
  loading,      \* images whose Image.onload is pending
  \* history
  ev,           \* the handler or callback that ran last
  evPos,        \* clientX / clientY of that event when it is a pointer down or move
  nEvents       \* user input events so far

appVars == <<originalImage, processedImage, isProcessing, readers, inflight, alerts,
             lastShown>>
editorVars == <<mode, brushSize, paths, scale, offset, isDragging, lastMousePos,
                isDrawing, currentPath, imageRef, loading>>
vars == <<appVars, editorVars, ev, evPos, nEvents>>

\* the editor is rendered: originalImage && !processedImage
Mounted == originalImage # NoImage /\ processedImage = NoImage

\* useState initial values of a freshly mounted ImageEditor
EditorFresh ==
  /\ mode' = "DRAW"
  /\ brushSize' = 20
  /\ paths' = <<>>
  /\ scale' = R(1)
  /\ offset' = Origin
  /\ isDragging' = FALSE
  /\ lastMousePos' = Origin
  /\ isDrawing' = FALSE
  /\ currentPath' = <<>>
  /\ imageRef' = NoImage

Init ==
  /\ originalImage = NoImage
  /\ processedImage = NoImage
  /\ isProcessing = FALSE
  /\ readers = {}
  /\ inflight = <<>>
  /\ alerts = 0
  /\ lastShown = [mode |-> "DRAW", brushSize |-> 20]
  /\ mode = "DRAW"
  /\ brushSize = 20
  /\ paths = <<>>
  /\ scale = R(1)
  /\ offset = Origin
  /\ isDragging = FALSE
  /\ lastMousePos = Origin
  /\ isDrawing = FALSE
  /\ currentPath = <<>>
  /\ imageRef = NoImage
  /\ loading = {}
  /\ ev = "init"
  /\ evPos = NoPos
  /\ nEvents = 0

\* a user input event: counted, and recorded as the last event
UserEvent(name) ==
  nEvents < MaxEvents /\ nEvents' = nEvents + 1 /\ ev' = name /\ evPos' = NoPos
\* a pointer down or move at position e
PointerEvent(name, e) ==
  nEvents < MaxEvents /\ nEvents' = nEvents + 1 /\ ev' = name /\ evPos' = e
\* an asynchronous callback
Callback(name) == nEvents' = nEvents /\ ev' = name /\ evPos' = NoPos

\* Effect of new values of originalImage / processedImage on the editor:
\* unmount (state is dropped), mount (fresh state, the image-load effect runs),
\* or re-render with a changed imageSrc (the image-load effect runs again).
Render(orig, proc) ==
  LET after == orig # NoImage /\ proc = NoImage
  IN  IF ~after
        THEN /\ EditorFresh
             /\ loading' = {}
             /\ lastShown' = IF Mounted
                                THEN [mode |-> mode, brushSize |-> brushSize]
                                ELSE lastShown
        ELSE IF ~Mounted
          THEN EditorFresh /\ loading' = {orig} /\ UNCHANGED lastShown
          ELSE /\ UNCHANGED <<mode, brushSize, paths, scale, offset, isDragging,
                              lastMousePos, isDrawing, currentPath, imageRef, lastShown>>
               /\ loading' = IF orig # originalImage THEN loading \cup {orig} ELSE loading

\* ------------------------------------------------------------------------
\* App.tsx
\* ------------------------------------------------------------------------
RemoveAt(s, i) == SubSeq(s, 1, i - 1) \o SubSeq(s, i + 1, Len(s))

\* the image the inpainting service returns for a source image
ResultOf(img) == Append(img, "r")

\* handleFileUpload: a file is chosen (upload area or the replace-image label)
handleFileUpload(f) ==
  /\ UserEvent("handleFileUpload")
  /\ readers' = readers \cup {f}
  /\ UNCHANGED <<originalImage, processedImage, isProcessing, inflight, alerts, lastShown>>
  /\ UNCHANGED editorVars

\* reader.onload
ReaderLoad(f) ==
  /\ f \in readers
  /\ Callback("reader.onload")
  /\ readers' = readers \ {f}
  /\ originalImage' = FileImage(f)
  /\ processedImage' = NoImage
  /\ Render(FileImage(f), NoImage)
  /\ UNCHANGED <<isProcessing, inflight, alerts>>

\* handleGenerate up to the await: the busy flag is set and the request is sent.
\* "issued" records the editor state at that moment (history only).
handleGenerate(maskBase64) ==
  IF originalImage = NoImage
    THEN UNCHANGED appVars
    ELSE /\ isProcessing' = TRUE
         /\ inflight' = Append(inflight,
               [source |-> originalImage, mask |-> maskBase64,
                issued |-> [paths |-> paths, scale |-> scale, offset |-> offset]])
         /\ UNCHANGED <<originalImage, processedImage, readers, alerts, lastShown>>

\* removeWatermark resolves: try-branch, then finally
Resolve(i) ==
  /\ i \in 1..Len(inflight)
  /\ Callback("resolve")
  /\ processedImage' = ResultOf(inflight[i].source)
  /\ isProcessing' = FALSE
  /\ inflight' = RemoveAt(inflight, i)
  /\ Render(originalImage, ResultOf(inflight[i].source))
  /\ UNCHANGED <<originalImage, readers, alerts>>

\* Reject with the busy flag cleared in the try-branch only (no finally)
RejectNoFinally(i) ==
  /\ i \in 1..Len(inflight)
  /\ Callback("reject")
  /\ alerts' = alerts + 1
  /\ inflight' = RemoveAt(inflight, i)
  /\ UNCHANGED <<originalImage, processedImage, isProcessing, readers, lastShown>>
  /\ UNCHANGED editorVars

\* removeWatermark rejects: catch-branch (alert), then finally
Reject(i) ==
  /\ i \in 1..Len(inflight)
  /\ Callback("reject")
  /\ alerts' = alerts + 1
  /\ isProcessing' = FALSE
  /\ inflight' = RemoveAt(inflight, i)
  /\ UNCHANGED <<originalImage, processedImage, readers, lastShown>>
  /\ UNCHANGED editorVars

\* handleApply (CompareView's apply button)
handleApply ==
  /\ originalImage # NoImage /\ processedImage # NoImage
  /\ UserEvent("handleApply")
  /\ originalImage' = processedImage
  /\ processedImage' = NoImage
  /\ Render(processedImage, NoImage)
  /\ UNCHANGED <<isProcessing, readers, inflight, alerts>>

\* handleCancel (CompareView's redraw button)
handleCancel ==
  /\ originalImage # NoImage /\ processedImage # NoImage
  /\ UserEvent("handleCancel")
  /\ processedImage' = NoImage
  /\ Render(originalImage, NoImage)
  /\ UNCHANGED <<originalImage, isProcessing, readers, inflight, alerts>>

\* ------------------------------------------------------------------------
\* ImageEditor.tsx: viewport
\* ------------------------------------------------------------------------
\* initialScale = Math.min(scaleX, scaleY, 1) * 0.9
\* Math.min(scaleX, scaleY) * 0.9: the cap at 1 is missing
InitialScaleNoCap(clientWidth, clientHeight, imgWidth, imgHeight) ==
  LET scaleX == Rat(clientWidth, imgWidth)
      scaleY == Rat(clientHeight, imgHeight)
  IN  RMul(RMin(scaleX, scaleY), Rat(9, 10))

InitialScale(clientWidth, clientHeight, imgWidth, imgHeight) ==
  LET scaleX == Rat(clientWidth, imgWidth)
      scaleY == Rat(clientHeight, imgHeight)
  IN  RMul(RMin(RMin(scaleX, scaleY), R(1)), Rat(9, 10))

\* the offset setOffset receives for a scale
InitialOffset(clientWidth, clientHeight, imgWidth, imgHeight, initialScale) ==
  [x |-> RDiv(RSub(R(clientWidth), RMul(R(imgWidth), initialScale)), R(2)),
   y |-> RDiv(RSub(R(clientHeight), RMul(R(imgHeight), initialScale)), R(2))]

FitScale(imgWidth, imgHeight) ==
  InitialScale(Container.clientWidth, Container.clientHeight, imgWidth, imgHeight)

\* the image's origin is put at the container's centre (the image's half size is
\* not subtracted)
FitOffsetOrigin(imgWidth, imgHeight) ==
  [x |-> RDiv(R(Container.clientWidth), R(2)),
   y |-> RDiv(R(Container.clientHeight), R(2))]

FitOffset(imgWidth, imgHeight) ==
  InitialOffset(Container.clientWidth, Container.clientHeight, imgWidth, imgHeight,
                FitScale(imgWidth, imgHeight))

fitImageToContainer(imgWidth, imgHeight) ==
  /\ scale' = FitScale(imgWidth, imgHeight)
  /\ offset' = FitOffset(imgWidth, imgHeight)
  /\ paths' = <<>>

\* img.onload of the image-load effect
ImageLoad(img) ==
  /\ img \in loading
  /\ Callback("img.onload")
  /\ loading' = loading \ {img}
  /\ imageRef' = img
  /\ fitImageToContainer(ImgDims(img).width, ImgDims(img).height)
  /\ UNCHANGED <<mode, brushSize, isDragging, lastMousePos, isDrawing, currentPath>>
  /\ UNCHANGED appVars

\* newScale = Math.max(0.1, Math.min(5, scale - e.deltaY * 0.001))
ZoomScale(s, deltaY) ==
  RMax(Rat(1, 10), RMin(R(5), RSub(s, RMul(R(deltaY), Rat(1, 1000)))))

handleWheel(deltaY) ==
  /\ Mounted
  /\ UserEvent("handleWheel")
  /\ scale' = ZoomScale(scale, deltaY)
  /\ UNCHANGED <<mode, brushSize, paths, offset, isDragging, lastMousePos,
                 isDrawing, currentPath, imageRef, loading>>
  /\ UNCHANGED appVars

\* getRelativeCoords that divides by the scale before subtracting the offset
getRelativeCoordsScaleFirst(e) ==
  IF imageRef = NoImage
    THEN <<>>
    ELSE LET containerX == R(e.x - Container.left)
             containerY == R(e.y - Container.top)
         IN  <<[x |-> RSub(RDiv(containerX, scale), offset.x),
                y |-> RSub(RDiv(containerY, scale), offset.y)]>>

\* getRelativeCoords: <<>> stands for null
getRelativeCoords(e) ==
  IF imageRef = NoImage
    THEN <<>>
    ELSE LET containerX == R(e.x - Container.left)
             containerY == R(e.y - Container.top)
         IN  <<[x |-> RDiv(RSub(containerX, offset.x), scale),
                y |-> RDiv(RSub(containerY, offset.y), scale)]>>

\* ------------------------------------------------------------------------
\* ImageEditor.tsx: pointer handlers (mouse, touch and mouse-leave bindings)
\* ------------------------------------------------------------------------
InPanRange(o) ==
  /\ RLe(R(-OffsetBound), o.x) /\ RLe(o.x, R(OffsetBound))
  /\ RLe(R(-OffsetBound), o.y) /\ RLe(o.y, R(OffsetBound))

\* a pointer-down that starts recording before it looks at the coordinates
handleMouseDownNoCoordsCheck(e) ==
  /\ Mounted
  /\ PointerEvent("handleMouseDown", e)
  /\ IF isProcessing
       THEN UNCHANGED <<isDragging, lastMousePos, isDrawing, currentPath>>
       ELSE IF mode = "PAN"
         THEN /\ isDragging' = TRUE
              /\ lastMousePos' = RPoint(e)
              /\ UNCHANGED <<isDrawing, currentPath>>
         ELSE LET coords == getRelativeCoords(e)
              IN  /\ isDrawing' = TRUE
                  /\ currentPath' = coords
                  /\ UNCHANGED <<isDragging, lastMousePos>>
  /\ UNCHANGED <<mode, brushSize, paths, scale, offset, imageRef, loading>>
  /\ UNCHANGED appVars

\* onMouseDown / onTouchStart
handleMouseDown(e) ==
  /\ Mounted
  /\ PointerEvent("handleMouseDown", e)
  /\ IF isProcessing
       THEN UNCHANGED <<isDragging, lastMousePos, isDrawing, currentPath>>
       ELSE IF mode = "PAN"
         THEN /\ isDragging' = TRUE
              /\ lastMousePos' = RPoint(e)
              /\ UNCHANGED <<isDrawing, currentPath>>
         ELSE LET coords == getRelativeCoords(e)
              IN  /\ IF coords # <<>>
                       THEN isDrawing' = TRUE /\ currentPath' = coords
                       ELSE UNCHANGED <<isDrawing, currentPath>>
                  /\ UNCHANGED <<isDragging, lastMousePos>>
  /\ UNCHANGED <<mode, brushSize, paths, scale, offset, imageRef, loading>>
  /\ UNCHANGED appVars

\* onMouseMove / onTouchMove
handleMouseMove(e) ==
  /\ Mounted
  /\ PointerEvent("handleMouseMove", e)
  /\ IF isProcessing
       THEN UNCHANGED <<offset, lastMousePos, currentPath>>
       ELSE IF mode = "PAN" /\ isDragging
         THEN LET dx == RSub(R(e.x), lastMousePos.x)
                  dy == RSub(R(e.y), lastMousePos.y)
                  moved == [x |-> RAdd(offset.x, dx), y |-> RAdd(offset.y, dy)]
              IN  /\ InPanRange(moved)
                  /\ offset' = moved
                  /\ lastMousePos' = RPoint(e)
                  /\ UNCHANGED currentPath
         ELSE IF mode = "DRAW" /\ isDrawing
           THEN LET coords == getRelativeCoords(e)
                IN  /\ IF coords # <<>>
                         THEN /\ Len(currentPath) < MaxPts
                              /\ currentPath' = currentPath \o coords
                         ELSE UNCHANGED currentPath
                    /\ UNCHANGED <<offset, lastMousePos>>
           ELSE UNCHANGED <<offset, lastMousePos, currentPath>>
  /\ UNCHANGED <<mode, brushSize, paths, scale, isDragging, isDrawing, imageRef, loading>>
  /\ UNCHANGED appVars

\* handleMouseUp that commits whenever the mode is DRAW (no isDrawing / length test)
handleMouseUpAlwaysCommit ==
  /\ Mounted
  /\ UserEvent("handleMouseUp")
  /\ IF mode = "PAN"
       THEN /\ isDragging' = FALSE
            /\ UNCHANGED <<isDrawing, paths, currentPath>>
       ELSE /\ isDrawing' = FALSE
            /\ Len(paths) < MaxPaths
            /\ paths' = Append(paths, [points |-> currentPath, size |-> brushSize])
            /\ currentPath' = <<>>
            /\ UNCHANGED isDragging
  /\ UNCHANGED <<mode, brushSize, scale, offset, lastMousePos, imageRef, loading>>
  /\ UNCHANGED appVars

\* onMouseUp / onMouseLeave / onTouchEnd
handleMouseUp ==
  /\ Mounted
  /\ UserEvent("handleMouseUp")
  /\ IF mode = "PAN"
       THEN /\ isDragging' = FALSE
            /\ UNCHANGED <<isDrawing, paths, currentPath>>
       ELSE IF mode = "DRAW" /\ isDrawing
         THEN /\ isDrawing' = FALSE
              /\ IF Len(currentPath) > 0
                   THEN /\ Len(paths) < MaxPaths
                        /\ paths' = Append(paths, [points |-> currentPath, size |-> brushSize])
                        /\ currentPath' = <<>>
                   ELSE UNCHANGED <<paths, currentPath>>
              /\ UNCHANGED isDragging
         ELSE UNCHANGED <<isDragging, isDrawing, paths, currentPath>>
  /\ UNCHANGED <<mode, brushSize, scale, offset, lastMousePos, imageRef, loading>>
  /\ UNCHANGED appVars

\* ------------------------------------------------------------------------
\* ImageEditor.tsx: toolbar
\* ------------------------------------------------------------------------
\* the two mode buttons
setMode(m) ==
  /\ Mounted
  /\ UserEvent("setMode")
  /\ mode' = m
  /\ UNCHANGED <<brushSize, paths, scale, offset, isDragging, lastMousePos,
                 isDrawing, currentPath, imageRef, loading>>
  /\ UNCHANGED appVars

\* a brush size kept globally: the committed strokes take the new size too
setBrushSizeGlobal(b) ==
  /\ Mounted
  /\ mode = "DRAW"
  /\ UserEvent("setBrushSize")
  /\ brushSize' = b
  /\ paths' = [i \in 1..Len(paths) |-> [paths[i] EXCEPT !.size = b]]
  /\ UNCHANGED <<mode, scale, offset, isDragging, lastMousePos,
                 isDrawing, currentPath, imageRef, loading>>
  /\ UNCHANGED appVars

\* the brush-size range input, rendered in DRAW mode only
setBrushSize(b) ==
  /\ Mounted
  /\ mode = "DRAW"
  /\ UserEvent("setBrushSize")
  /\ brushSize' = b
  /\ UNCHANGED <<mode, paths, scale, offset, isDragging, lastMousePos,
                 isDrawing, currentPath, imageRef, loading>>
  /\ UNCHANGED appVars

\* the disabled test without the busy flag
ButtonDisabledNoBusy == Len(paths) = 0

\* disabled={paths.length === 0 || isProcessing} of the undo, reset and generate buttons
ButtonDisabled == Len(paths) = 0 \/ isProcessing

\* prev.slice(1): drops the first stroke instead of the last
undoFirst(prev) == SubSeq(prev, 2, Len(prev))

\* prev.slice(0, prev.length - 1)
undo(prev) == SubSeq(prev, 1, Len(prev) - 1)

\* reset that removes the last stroke only
resetLast(prev) == SubSeq(prev, 1, Len(prev) - 1)

\* [] of reset
reset(prev) == <<>>

\* a click on the undo button
ClickUndo ==
  /\ Mounted
  /\ IF ButtonDisabled
       THEN UserEvent("undoDisabled") /\ UNCHANGED paths
       ELSE UserEvent("undo") /\ paths' = undo(paths)
  /\ UNCHANGED <<mode, brushSize, scale, offset, isDragging, lastMousePos,
                 isDrawing, currentPath, imageRef, loading>>
  /\ UNCHANGED appVars

\* a click on the reset button
ClickReset ==
  /\ Mounted
  /\ IF ButtonDisabled
       THEN UserEvent("resetDisabled") /\ UNCHANGED paths
       ELSE UserEvent("reset") /\ paths' = reset(paths)
  /\ UNCHANGED <<mode, brushSize, scale, offset, isDragging, lastMousePos,
                 isDrawing, currentPath, imageRef, loading>>
  /\ UNCHANGED appVars

\* ------------------------------------------------------------------------
\* ImageEditor.tsx: mask rasterizer
\* ------------------------------------------------------------------------
\* a mask drawn with the current brush size instead of each stroke's own
MaskOfCurrentBrush(img, ps) ==
  [width |-> ImgDims(img).width,
   height |-> ImgDims(img).height,
   strokes |-> [i \in 1..Len(ps) |-> [ps[i] EXCEPT !.size = brushSize]]]

\* the mask canvas: its size and the strokes drawn on it in white, in order
MaskOf(img, ps) ==
  [width |-> ImgDims(img).width,
   height |-> ImgDims(img).height,
   strokes |-> SelectSeq(ps, LAMBDA path : Len(path.points) >= 1)]

generateMask ==
  IF imageRef = NoImage
    THEN UNCHANGED appVars
    ELSE handleGenerate(MaskOf(imageRef, paths))

\* the generate button without its disabled attribute
ClickGenerateNoGuard ==
  /\ Mounted
  /\ UserEvent("generateMask")
  /\ generateMask
  /\ UNCHANGED editorVars

\* a click on the generate button
ClickGenerate ==
  /\ Mounted
  /\ IF ButtonDisabled
       THEN UserEvent("generateDisabled") /\ UNCHANGED appVars
       ELSE UserEvent("generateMask") /\ generateMask
  /\ UNCHANGED editorVars

\* ------------------------------------------------------------------------
\* Specification
\* ------------------------------------------------------------------------
Settle == \E i \in 1..Len(inflight) : Resolve(i) \/ Reject(i)

Next ==
  \/ \E f \in Files : handleFileUpload(f)
  \/ \E f \in Files : ReaderLoad(f)
  \/ \E img \in loading : ImageLoad(img)
  \/ \E i \in 1..Len(inflight) : Resolve(i)
  \/ \E i \in 1..Len(inflight) : Reject(i)
  \/ handleApply
  \/ handleCancel
  \/ \E e \in Positions : handleMouseDown(e)
  \/ \E e \in Positions : handleMouseMove(e)
  \/ handleMouseUp
  \/ \E deltaY \in WheelDeltas : handleWheel(deltaY)
  \/ \E m \in Modes : setMode(m)
  \/ \E b \in BrushSizes : setBrushSize(b)
  \/ ClickUndo
  \/ ClickReset
  \/ ClickGenerate

Spec == Init /\ [][Next]_vars

\* the remote call eventually resolves or rejects
LiveSpec == Spec /\ WF_vars(Settle)

\* ------------------------------------------------------------------------
\* The viewport functions on their own: fit and coordinate conversion applied
\* to sampled dimensions, viewports and pointer positions.  Here ev is a record
\* holding the inputs of the last application.
\* ------------------------------------------------------------------------
PureWidths == {300, 1000}
PureHeights == {200, 800}
PureImgWidths == {1, 800, 20000}
PureImgHeights == {1, 600, 16000}
PureScales == {Rat(1, 10), Rat(9, 200), Rat(9, 10), R(1), R(5)}
PureOffsets == {Origin, [x |-> R(140), y |-> R(130)], [x |-> R(-160), y |-> Rat(1591, 4)]}
PurePositions == Positions \cup {[x |-> 20, y |-> 10], [x |-> 7, y |-> 1013]}

\* transform: translate(offset.x, offset.y) scale(scale), transformOrigin 0 0:
\* where a point of the canvas is shown in the container
toContainerSpace(p) ==
  [x |-> RAdd(RMul(p.x, scale), offset.x),
   y |-> RAdd(RMul(p.y, scale), offset.y)]

PureInit ==
  /\ originalImage = FileImage("A")
  /\ processedImage = NoImage
  /\ isProcessing = FALSE
  /\ readers = {}
  /\ inflight = <<>>
  /\ alerts = 0
  /\ lastShown = [mode |-> "DRAW", brushSize |-> 20]
  /\ mode = "DRAW"
  /\ brushSize = 20
  /\ paths = <<>>
  /\ scale \in PureScales
  /\ offset \in PureOffsets
  /\ isDragging = FALSE
  /\ lastMousePos = Origin
  /\ isDrawing = FALSE
  /\ currentPath = <<>>
  /\ imageRef = FileImage("A")
  /\ loading = {}
  /\ ev = [op |-> "init"]
  /\ evPos = NoPos
  /\ nEvents = 0

\* the viewport part of fitImageToContainer for a container and an image size
PureFit(clientWidth, clientHeight, imgWidth, imgHeight) ==
  LET initialScale == InitialScale(clientWidth, clientHeight, imgWidth, imgHeight)
  IN  /\ scale' = initialScale
      /\ offset' = InitialOffset(clientWidth, clientHeight, imgWidth, imgHeight,
                                 initialScale)
      /\ ev' = [op |-> "fit", cw |-> clientWidth, ch |-> clientHeight,
                iw |-> imgWidth, ih |-> imgHeight]
      /\ UNCHANGED <<mode, brushSize, paths, isDragging, lastMousePos, isDrawing,
                     currentPath, imageRef, loading, nEvents, evPos>>
      /\ UNCHANGED appVars

\* getRelativeCoords applied to a pointer position; the result is kept in currentPath
PureCoords(e) ==
  /\ currentPath' = getRelativeCoords(e)
  /\ ev' = [op |-> "coords", e |-> e]
  /\ UNCHANGED <<mode, brushSize, paths, scale, offset, isDragging, lastMousePos,
                 isDrawing, imageRef, loading, nEvents, evPos>>
  /\ UNCHANGED appVars

PureNext ==
  \/ \E cw \in PureWidths, ch \in PureHeights, iw \in PureImgWidths, ih \in PureImgHeights :
        PureFit(cw, ch, iw, ih)
  \/ \E e \in PurePositions : PureCoords(e)

PureSpec == PureInit /\ [][PureNext]_vars

\* ------------------------------------------------------------------------
\* Properties
\* ------------------------------------------------------------------------
PointerEvents == {"handleMouseDown", "handleMouseMove", "handleMouseUp"}

\* C1: a pointer-up handled in DRAW mode lengthens the stroke history by exactly 1
\* when the in-progress stroke is non-empty and by 0 otherwise; pointer-down,
\* pointer-move, wheel and a pointer-up in PAN mode leave its length unchanged.
C1_StrokeCount ==
  [][/\ (ev' = "handleMouseUp" /\ mode = "DRAW")
          => Len(paths') = Len(paths) + (IF Len(currentPath) > 0 THEN 1 ELSE 0)
     /\ (\/ ev' \in {"handleMouseDown", "handleMouseMove", "handleWheel"}
         \/ (ev' = "handleMouseUp" /\ mode # "DRAW"))
          => Len(paths') = Len(paths)]_vars

\* a second stroke, with a moved-to point, has just been committed by a pointer-up
C1_Witness ==
  /\ ev = "handleMouseUp"
  /\ Len(paths) = 2
  /\ Len(paths[2].points) = 2
  /\ currentPath = <<>>

\* C2: undo on N strokes leaves the first N-1 strokes, equal by value and in order;
\* on an empty history it changes nothing; it never touches the in-progress stroke
\* or the recording flag.
C2_Undo ==
  [][/\ ev' = "undo"
          => /\ Len(paths') = Len(paths) - 1
             /\ \A i \in 1..Len(paths') : paths'[i] = paths[i]
     /\ (ev' \in {"undo", "undoDisabled"} /\ Len(paths) = 0) => paths' = <<>>
     /\ ev' \in {"undo", "undoDisabled"}
          => UNCHANGED <<currentPath, isDrawing>>]_vars

\* undo has just removed the second of two committed strokes
C2_Witness ==
  /\ ev = "undo"
  /\ Len(paths) = 1
  /\ Len(paths[1].points) >= 1

\* C3: reset yields an empty history and leaves the in-progress stroke, the
\* recording flag, the viewport, the mode and the brush size unchanged.
C3_Reset ==
  [][ev' = "reset"
       => /\ paths' = <<>>
          /\ UNCHANGED <<currentPath, isDrawing, scale, offset, mode, brushSize>>]_vars

\* reset has just run while a stroke was being recorded
C3_Witness ==
  /\ ev = "reset"
  /\ isDrawing
  /\ Len(currentPath) > 0
  /\ paths = <<>>

\* C4: the viewport scale lies in [0.1, 5] in every reachable state.
C4_ScaleInRange == RLe(Rat(1, 10), scale) /\ RLe(scale, R(5))

\* C5: the mask of every request handed to the inpainting service has the native
\* width and height of the source image of that request.
C5_MaskMatchesSource ==
  \A i \in 1..Len(inflight) :
    /\ inflight[i].mask.width = ImgDims(inflight[i].source).width
    /\ inflight[i].mask.height = ImgDims(inflight[i].source).height

\* C6: a click on the generate button while the busy flag is set or the history is
\* empty sends no request and leaves the history unchanged.
C6_TriggerGuard ==
  [][(ev' \in {"generateMask", "generateDisabled"} /\ (isProcessing \/ Len(paths) = 0))
       => inflight' = inflight /\ paths' = paths /\ isProcessing' = isProcessing]_vars

\* the generate button has just been clicked while a request was in flight
C6_Witness ==
  /\ ev = "generateDisabled"
  /\ isProcessing
  /\ Len(inflight) = 1
  /\ Len(paths) > 0

\* C7: at most one generation request is outstanding at any moment.
C7_AtMostOneRequest == Len(inflight) <= 1

\* a request is outstanding while another image has been uploaded and the user
\* has clicked generate again
C7_Witness ==
  /\ Len(inflight) = 1
  /\ originalImage # inflight[1].source
  /\ ev = "generateDisabled"

\* C8: when the request is rejected the busy flag is cleared, an alert is shown, no
\* result is applied, and history and viewport are what they were at the trigger.
C8_RejectRestores ==
  [][(ev' = "reject" /\ Len(inflight) = 1)
       => /\ ~isProcessing'
          /\ alerts' = alerts + 1
          /\ processedImage' = processedImage
          /\ paths' = inflight[1].issued.paths
          /\ scale' = inflight[1].issued.scale
          /\ offset' = inflight[1].issued.offset]_vars

\* C9: the busy flag is set exactly while a request is in flight, and it is
\* eventually cleared once the remote call settles.
C9_BusyExactlyInFlight ==
  /\ [](isProcessing <=> Len(inflight) > 0)
  /\ (isProcessing ~> ~isProcessing)

\* the busy flag has just been cleared by a rejected request
C9_Witness ==
  /\ ev = "reject"
  /\ ~isProcessing
  /\ alerts = 1
  /\ inflight = <<>>

\* C10: while the busy flag is set no pointer event changes the history, the
\* in-progress stroke, the recording / dragging flags or the offset.
C10_BusySuppressesPointer ==
  [][(isProcessing /\ ev' \in PointerEvents)
       => UNCHANGED <<paths, currentPath, isDrawing, isDragging, offset>>]_vars

\* C11: the mode is latched at pointer-down: a gesture that is recording a stroke
\* ends at pointer-up with the recorder idle and exactly that stroke committed,
\* whatever the mode is by then; a gesture that is panning adds no point to a stroke.
C11_ModeLatched ==
  [][/\ (ev' = "handleMouseUp" /\ isDrawing /\ Len(currentPath) > 0)
          => /\ ~isDrawing'
             /\ currentPath' = <<>>
             /\ paths' = Append(paths, [points |-> currentPath, size |-> brushSize])
     /\ (ev' = "handleMouseMove" /\ isDragging /\ ~isDrawing)
          => currentPath' = currentPath]_vars

\* C12: when an image has finished loading the history is empty, there is no
\* in-progress stroke and the recorder is idle.
C12_LoadClearsStrokes ==
  [][ev' = "img.onload"
       => paths' = <<>> /\ currentPath' = <<>> /\ ~isDrawing']_vars

\* C13: a new source image, whether uploaded while editing or applied from a
\* result, leaves the editor with the mode and brush size it showed before.
C13_LoadKeepsModeAndBrush ==
  [][/\ (ev' \in {"reader.onload", "img.onload"} /\ Mounted)
          => UNCHANGED <<mode, brushSize>>
     /\ ev' = "handleApply"
          => mode' = lastShown.mode /\ brushSize' = lastShown.brushSize]_vars

\* C14: every completed image load sets scale = min(cw/iw, ch/ih, 1) * 0.9 and the
\* offset that centres the scaled image in the container; for the 800x600 image in
\* the 1000x800 container that is scale 0.9 and offset (140, 130).
C14_FitOnLoad ==
  [][ev' = "img.onload"
       => LET iw == ImgDims(imageRef').width
              ih == ImgDims(imageRef').height
              cw == Container.clientWidth
              ch == Container.clientHeight
              \* ten ninths of the scale: min(cw/iw, ch/ih, 1)
              m == <<10 * scale'[1], 9 * scale'[2]>>
          IN  /\ IF cw >= iw /\ ch >= ih
                   THEN m[1] = m[2]
                   ELSE IF cw * ih <= ch * iw
                     THEN m[1] * iw = cw * m[2]
                     ELSE m[1] * ih = ch * m[2]
              \* centred: the margins left and right, above and below, are equal
              /\ RAdd(RAdd(offset'.x, RMul(R(iw), scale')), offset'.x) = R(cw)
              /\ RAdd(RAdd(offset'.y, RMul(R(ih), scale')), offset'.y) = R(ch)
              /\ (iw = 800 /\ ih = 600 /\ cw = 1000 /\ ch = 800)
                   => /\ scale' = <<9, 10>>
                      /\ offset' = [x |-> <<140, 1>>, y |-> <<130, 1>>]]_vars

\* the 800x600 image has just been loaded after the viewport had been changed
C14_Witness ==
  /\ ev = "img.onload"
  /\ imageRef = FileImage("A")
  /\ scale = <<9, 10>>
  /\ offset = [x |-> <<140, 1>>, y |-> <<130, 1>>]
  /\ nEvents >= 2

\* C15 as stated: the fitted scale is the largest s <= 1 with imgW * s <= 0.9 * cw
\* and imgH * s <= 0.9 * ch.
C15_LargestWithinNinetyPercent ==
  ev.op = "fit"
    => LET w == RMul(R(ev.iw), scale)
           h == RMul(R(ev.ih), scale)
           w90 == RMul(Rat(9, 10), R(ev.cw))
           h90 == RMul(Rat(9, 10), R(ev.ch))
       IN  /\ RLe(scale, R(1)) /\ RLe(w, w90) /\ RLe(h, h90)
           /\ (scale = R(1) \/ w = w90 \/ h = h90)

\* C15 as amended: the fitted scale is 0.9 times the largest m <= 1 with
\* imgW * m <= cw and imgH * m <= ch.
C15_NinetyPercentOfLargestFit ==
  ev.op = "fit"
    => LET m == RDiv(scale, Rat(9, 10))
           w == RMul(R(ev.iw), m)
           h == RMul(R(ev.ih), m)
       IN  /\ RLe(m, R(1)) /\ RLe(w, R(ev.cw)) /\ RLe(h, R(ev.ch))
           /\ (m = R(1) \/ w = R(ev.cw) \/ h = R(ev.ch))

\* an image smaller than the container has been fitted: its scale is 0.9, not 1
C15_Witness ==
  /\ ev.op = "fit"
  /\ ev.iw < ev.cw /\ ev.ih < ev.ch
  /\ ev.iw > 1
  /\ scale = <<9, 10>>

\* C16: converting a container point to image space and back with the canvas
\* transform returns the point.
C16_RoundTrip ==
  ev.op = "coords"
    => /\ Len(currentPath) = 1
       /\ toContainerSpace(currentPath[1])
            = [x |-> R(ev.e.x - Container.left), y |-> R(ev.e.y - Container.top)]

\* a point has been converted under a viewport that scales and translates
C16_Witness ==
  /\ ev.op = "coords"
  /\ scale = Rat(9, 200)
  /\ offset.x # R(0)
  /\ Len(currentPath) = 1
  /\ currentPath[1].x[2] # 1

\* C17: a committed stroke never changes: across every step, each entry that is in
\* the history before and after the step has the same points and size.
C17_StrokesImmutable ==
  [][\A i \in 1..Len(paths) :
       i <= Len(paths') => /\ paths'[i].points = paths[i].points
                           /\ paths'[i].size = paths[i].size]_vars

\* the brush size has been changed after a stroke was committed with another size
C17_Witness ==
  /\ ev = "setBrushSize"
  /\ Len(paths) >= 1
  /\ paths[1].size # brushSize

\* C18: while a stroke is being recorded every pointer-move appends its point;
\* outside a recording a pointer-move changes nothing; a pointer-down that starts
\* a recording sets the in-progress stroke to its point; the stroke committed at
\* pointer-up is the in-progress stroke, unaltered.
C18_AllPointsKept ==
  [][/\ (ev' = "handleMouseMove" /\ isDrawing /\ ~isProcessing)
          => currentPath' = currentPath \o getRelativeCoords(evPos')
     /\ (ev' = "handleMouseMove" /\ ~isDrawing) => currentPath' = currentPath
     /\ (ev' = "handleMouseDown" /\ ~isDrawing /\ isDrawing')
          => currentPath' = getRelativeCoords(evPos')
     /\ (ev' = "handleMouseUp" /\ Len(paths') > Len(paths))
          => paths'[Len(paths')].points = currentPath]_vars

\* C19: while a pan gesture is active every pointer-move adds to the offset the
\* displacement from the previously sampled position (so the moves of a gesture
\* add up to pn - p0), and changes neither scale, history nor in-progress stroke.
C19_PanByDisplacement ==
  [][(ev' = "handleMouseMove" /\ isDragging /\ ~isProcessing)
       => /\ offset'.x = RAdd(offset.x, RSub(R(evPos'.x), lastMousePos.x))
          /\ offset'.y = RAdd(offset.y, RSub(R(evPos'.y), lastMousePos.y))
          /\ lastMousePos' = RPoint(evPos')
          /\ UNCHANGED <<scale, paths, currentPath>>]_vars

\* C20: the mask of a request is the committed history, stroke by stroke with each
\* stroke's own size, on a canvas of the loaded image's native size; it holds no
\* in-progress stroke and does not depend on viewport, mode or current brush size;
\* for an empty history it holds no stroke (it is entirely black).
C20_MaskIsHistory ==
  [][Len(inflight') > Len(inflight)
       => LET m == inflight'[Len(inflight')].mask
          IN  /\ Len(m.strokes) = Len(paths)
              /\ \A i \in 1..Len(paths) :
                   /\ m.strokes[i].points = paths[i].points
                   /\ m.strokes[i].size = paths[i].size
              /\ m.width = ImgDims(imageRef).width
              /\ m.height = ImgDims(imageRef).height
              /\ \A f \in Files : MaskOf(FileImage(f), <<>>).strokes = <<>>]_vars

\* a mask has just been made while a stroke was in progress and the brush size
\* differed from the committed stroke's
C20_Witness ==
  /\ ev = "generateMask"
  /\ Len(inflight) = 1
  /\ Len(currentPath) > 0
  /\ Len(paths) >= 1
  /\ paths[1].size # brushSize
  /\ Len(inflight[1].mask.strokes) = Len(paths)

\* C21: in every reachable state the recorder is recording (isDrawing) exactly when
\* the in-progress stroke (currentPath) is non-empty.
C21_RecordingIffPath == isDrawing <=> Len(currentPath) > 0

\* a pointer-up arrived in PAN mode while a recording started in DRAW mode was
\* still active
C21_Witness ==
  /\ ev = "handleMouseUp"
  /\ mode = "PAN"
  /\ isDrawing
  /\ Len(currentPath) > 0

\* C22: whenever a processed image is recorded, it is the result computed from the
\* image that is the original at that moment.
C22_ResultOfCurrentOriginal ==
  processedImage # NoImage => processedImage = ResultOf(originalImage)
====
